---- MODULE Spec2Model ----
(***************************************************************************)
(* A model of antonybholmes/go-auth: the user store (userdb.go), the       *)
(* credential codec (auth.go) and the package-level wrappers.              *)
(*                                                                         *)
(* Strings are sequences of one-character strings, so that the validators, *)
(* the address parser and the decimal formatter are computed character by  *)
(* character as the code computes them.                                    *)
(***************************************************************************)
EXTENDS Integers, Sequences, FiniteSets, TLC

VARIABLES
    users,      \* the rows of table users
    roles,      \* the rows of table roles
    user_roles, \* the rows of table user_roles
    permissions,      \* the rows of table permissions
    role_permissions, \* the rows of table role_permissions
    calls,      \* the registrations in progress, one per concurrent caller
    now,        \* the store's clock, in seconds since the epoch
    otps,       \* the one-time codes handed out so far
    last        \* the last call: its operation, its arguments and what it returned

vars == <<users, roles, user_roles, permissions, role_permissions, calls, now, otps, last>>

(***************************************************************************)
(* Bounds of the model.                                                    *)
(***************************************************************************)
\* The clock starts here, so that a tick crosses from one decimal digit to two.
StartTime == 9
\* The number of clock ticks explored.
MaxTicks == 1
\* bcrypt salts are drawn from 1..MaxSalt.
MaxSalt == 1
\* The number of one-time codes kept outstanding.
MaxOtps == 1
\* The validators' inputs end in at most this many drawn characters.
MaxSuffix == 3

(***************************************************************************)
(* Characters.                                                             *)
(***************************************************************************)
Lower == {"a", "b", "c", "d", "e", "f", "g", "h", "i", "j", "k", "l", "m",
          "n", "o", "p", "q", "r", "s", "t", "u", "v", "w", "x", "y", "z"}
Upper == {"A", "B", "C", "D", "E", "F", "G", "H", "I", "J", "K", "L", "M",
          "N", "O", "P", "Q", "R", "S", "T", "U", "V", "W", "X", "Y", "Z"}
Digit == {"0", "1", "2", "3", "4", "5", "6", "7", "8", "9"}
DigitChars == <<"0", "1", "2", "3", "4", "5", "6", "7", "8", "9">>

\* \w of Go's regexp: [0-9A-Za-z_]
WordChars == Lower \cup Upper \cup Digit \cup {"_"}
IsWord(c) == c \in WordChars

\* n copies of the character c
RECURSIVE Rep(_, _)
Rep(c, n) == IF n = 0 THEN <<>> ELSE <<c>> \o Rep(c, n - 1)

\* the first n characters of s (s[:n] when n <= len(s), else s)
Take(s, n) == IF Len(s) <= n THEN s ELSE SubSeq(s, 1, n)

AllChars(s, P(_)) == \A i \in 1..Len(s) : P(s[i])

(***************************************************************************)
(* Errors. Nil is Go's nil error; every other value is the error's text.   *)
(***************************************************************************)
Nil == "nil"
ErrNoRows == "sql: no rows in result set"
ErrScanNotPointer == "sql: Scan error: destination not a pointer"
ErrConstraint == "UNIQUE constraint failed"
ErrMailParse == "mail: no address"
ErrPasswordLength == "password must be at least 8 characters"
ErrInvalidPassword == "invalid password"
ErrUsernameLength == "username must be at least 4 characters"
ErrInvalidUsername == "invalid username"
ErrNameLength == "name must be at least 4 characters"
ErrInvalidName == "invalid name"
ErrInvalidEmail == "invalid email address"
ErrCouldNotParseEmail == "could not parse email"
ErrPasswordsDoNotMatch == "passwords do not match"
ErrOtpExpired == "one time code has expired"
ErrAlreadyRegistered == "user already registered:please sign up with another email address"
ErrRoleNotAvailable == "role not available"
ErrCouldNotUpdatePassword == "could not update password"
ErrCouldNotUpdateUsername == "could not update username"
ErrCouldNotUpdateName == "could not update name"
ErrCouldNotUpdateInfo == "could not update user info"
ErrCouldNotUpdateEmail == "could not update email address"
\* sys.Must on a non-nil error: the call does not return
Panic == "panic"

(***************************************************************************)
(* Validators (userdb.go).                                                 *)
(***************************************************************************)
MIN_PASSWORD_LENGTH == 8
MIN_NAME_LENGTH == 4
STANDARD_ROLE == <<"S", "t", "a", "n", "d", "a", "r", "d">>

\* ^[A-Za-z\d\@\$\!\%\*\#\?\&\.\~\^\-]*$
PasswordChars ==
    Lower \cup Upper \cup Digit
          \cup {"@", "$", "!", "%", "*", "#", "?", "&", ".", "~", "^", "-"}
PASSWORD_REGEX(s) == AllChars(s, LAMBDA c : c \in PasswordChars)

\* ^[\w\-\.@]+$
USERNAME_REGEX(s) ==
    Len(s) > 0 /\ AllChars(s, LAMBDA c : IsWord(c) \/ c \in {"-", ".", "@"})

\* ^[\w\- ]+$
NAME_REGEX(s) ==
    Len(s) > 0 /\ AllChars(s, LAMBDA c : IsWord(c) \/ c \in {"-", " "})

\* CheckPassword with the length test off by one
CheckPassword_OffByOne(password) ==
    IF password # <<>> /\ Len(password) < MIN_PASSWORD_LENGTH - 1 THEN ErrPasswordLength
    ELSE IF ~PASSWORD_REGEX(password) THEN ErrInvalidPassword
    ELSE Nil

\* CheckPassword without its test for the empty password
CheckPassword_RejectEmpty(password) ==
    IF Len(password) < MIN_PASSWORD_LENGTH THEN ErrPasswordLength
    ELSE IF ~PASSWORD_REGEX(password) THEN ErrInvalidPassword
    ELSE Nil

CheckPassword(password) ==
    IF password # <<>> /\ Len(password) < MIN_PASSWORD_LENGTH THEN ErrPasswordLength
    ELSE IF ~PASSWORD_REGEX(password) THEN ErrInvalidPassword
    ELSE Nil

CheckUsername(username) ==
    IF Len(username) < MIN_NAME_LENGTH THEN ErrUsernameLength
    ELSE IF ~USERNAME_REGEX(username) THEN ErrInvalidUsername
    ELSE Nil

CheckName(name) ==
    IF Len(name) < MIN_NAME_LENGTH THEN ErrNameLength
    ELSE IF ~NAME_REGEX(name) THEN ErrInvalidName
    ELSE Nil

(***************************************************************************)
(* net/mail.ParseAddress, for the two forms the callers pass: a bare       *)
(* addr-spec (local@domain, both dot-atoms) and  phrase <addr-spec>.       *)
(* The backquote, an atext character, occurs in no string of the model.    *)
(***************************************************************************)
ATextChars ==
    Lower \cup Upper \cup Digit
          \cup {"!", "#", "$", "%", "&", "'", "*", "+", "-", "/", "=", "?", "^", "_",
                "{", "|", "}", "~"}
IsAText(c) == c \in ATextChars

IsDotAtom(s) ==
    /\ Len(s) > 0
    /\ AllChars(s, LAMBDA c : IsAText(c) \/ c = ".")
    /\ s[1] # "."
    /\ s[Len(s)] # "."
    /\ \A i \in 1..(Len(s) - 1) : ~(s[i] = "." /\ s[i + 1] = ".")

\* the position of the first c in s, 0 when there is none
IndexOf(s, c) ==
    IF \E i \in 1..Len(s) : s[i] = c
    THEN CHOOSE i \in 1..Len(s) : s[i] = c /\ \A j \in 1..(i - 1) : s[j] # c
    ELSE 0

IsAddrSpec(s) ==
    LET at == IndexOf(s, "@")
    IN  /\ at > 1
        /\ at < Len(s)
        /\ IsDotAtom(SubSeq(s, 1, at - 1))
        /\ IsDotAtom(SubSeq(s, at + 1, Len(s)))

IsPhrase(s) == AllChars(s, LAMBDA c : IsAText(c) \/ c = " ")

\* [err, Address]: Address is the addr-spec, without the display name
ParseAddress(s) ==
    LET lt == IndexOf(s, "<")
    IN  IF IsAddrSpec(s) THEN [err |-> Nil, Address |-> s]
        ELSE IF /\ lt > 0
                /\ Len(s) > lt + 1
                /\ s[Len(s)] = ">"
                /\ IsPhrase(SubSeq(s, 1, lt - 1))
                /\ IsAddrSpec(SubSeq(s, lt + 1, Len(s) - 1))
             THEN [err |-> Nil, Address |-> SubSeq(s, lt + 1, Len(s) - 1)]
        ELSE [err |-> ErrMailParse, Address |-> <<>>]

CheckEmailIsWellFormed(email) ==
    IF ~USERNAME_REGEX(email) THEN [err |-> ErrInvalidEmail, Address |-> <<>>]
    ELSE IF ParseAddress(email).err # Nil THEN [err |-> ErrCouldNotParseEmail, Address |-> <<>>]
    ELSE ParseAddress(email)

(***************************************************************************)
(* Credential codec (auth.go).                                             *)
(***************************************************************************)
\* strconv.FormatUint(n, 10)
RECURSIVE FormatUint(_)
FormatUint(n) ==
    IF n < 10 THEN <<DigitChars[n + 1]>>
    ELSE FormatUint(n \div 10) \o <<DigitChars[(n % 10) + 1]>>

\* bcrypt reads at most this many bytes of the key
BcryptMaxLen == 72

\* The key bcrypt derives the digest from: the password and its trailing NUL,
\* of which the Blowfish key schedule reads the first 72 bytes.
BcryptKey(password) == Take(password \o <<"NUL">>, BcryptMaxLen)

\* A hash string: its version prefix, its salt and the digest, an ideal one-way
\* function of the salt and the key, kept here as the pair it is a function of.
BcryptHash(password, salt) == [version |-> "2a", salt |-> salt, key |-> BcryptKey(password)]

\* a string that is no bcrypt hash
MalformedHash == [version |-> "", salt |-> 0, key |-> <<>>]

\* bcrypt.GenerateFromPassword(password, DefaultCost): [err, hash]
GenerateFromPassword(password, salt) ==
    IF Len(password) > BcryptMaxLen
    THEN [err |-> "bcrypt: password length exceeds 72 bytes", hash |-> MalformedHash]
    ELSE [err |-> Nil, hash |-> BcryptHash(password, salt)]

\* bcrypt.CompareHashAndPassword(hash, password)
CompareHashAndPassword(hash, password) ==
    IF hash.version # "2a" THEN "bcrypt: hashedSecret too short to be a bcrypted password"
    ELSE IF BcryptHash(password, hash.salt) = hash THEN Nil
    ELSE "bcrypt: hashedPassword is not the hash of the given password"

\* [panic, hash]: sys.Must panics when bcrypt returns an error
HashPassword(password, salt) ==
    LET r == GenerateFromPassword(password, salt)
    IN  [panic |-> r.err # Nil, hash |-> r.hash]

CheckPasswordsMatch(hashedPassword, plainPwd) ==
    IF CompareHashAndPassword(hashedPassword, plainPwd) # Nil THEN ErrPasswordsDoNotMatch
    ELSE Nil

\* user is an AuthUser
CreateOtp(user, salt) == HashPassword(FormatUint(user.Updated), salt)

\* CheckOtpValid with its test of err inverted
CheckOtpValid_Inverted(user, otp) ==
    IF CheckPasswordsMatch(otp, FormatUint(user.Updated)) = Nil THEN ErrOtpExpired
    ELSE Nil

CheckOtpValid(user, otp) ==
    IF CheckPasswordsMatch(otp, FormatUint(user.Updated)) # Nil THEN ErrOtpExpired
    ELSE Nil

(***************************************************************************)
(* The strings of the model.                                               *)
(***************************************************************************)
S_alice == <<"a", "l", "i", "c", "e">>
S_al == <<"a", "l">>
S_Al == <<"A", "l">>
S_Smith == <<"S", "m", "i", "t", "h">>
E_bob == <<"b", "o", "b", "@", "x", ".", "i", "o">>
\* an address shorter than MIN_NAME_LENGTH
E_short == <<"a", "@", "b">>
\* an address with a display name
E_angle == <<"B", " ", "<">> \o E_bob \o <<">">>
P_1 == <<"p", "a", "s", "s", "w", "o", "r", "1">>
P_2 == <<"p", "a", "s", "s", "w", "o", "r", "2">>
P_short == <<"p", "a", "s", "s">>
P_space == <<"p", "a", "s", "s", " ", "w", "o", "r", "d">>
\* the longest password bcrypt hashes, and the same with one more character
P_72 == Rep("a", BcryptMaxLen)
P_73 == P_72 \o <<"b">>
\* the values Uuid() returns, in the order it returns them
U_1 == <<"0", "a", "-", "1">>
U_2 == <<"0", "a", "-", "2">>
UuidPool == <<U_1, U_2>>
R_admin == <<"A", "d", "m", "i", "n">>

Emails == {E_bob, E_short, E_angle, S_alice}
Passwords == {P_1, P_2, P_short, P_73}
AllPasswords == {<<>>, P_1, P_2, P_short, P_space, P_72, P_73}
Usernames == {S_alice, E_bob, S_al}
FirstNames == {S_alice, S_al}
NewEmails == {E_bob, E_short, E_angle}
Tokens == {S_alice, E_bob, E_short, E_angle, U_1, U_2}
\* the addresses the emails of the model parse to
Addresses == {E_bob, E_short}
Salts == 1..MaxSalt
\* The validators' inputs: at most MaxSuffix characters, two of them allowed in a
\* password and two not, alone or after six allowed characters.
P_stem == <<"p", "a", "s", "s", "w", "o">>
SuffixChars == {"r", "~", " ", "_"}
Suffixes == UNION {[1..k -> SuffixChars] : k \in 0..MaxSuffix}
ValidatorInputs == Suffixes \cup {P_stem \o x : x \in Suffixes}
\* The store's properties do not read the salt: Spec draws it from this set, and
\* SpecCodec and SpecHash, whose properties do, from Salts.
StoreSalts == {1}

(***************************************************************************)
(* The store. A row of users is                                            *)
(*   [uuid, first_name, last_name, username, email, password,              *)
(*    email_verified, can_signin, updated_on],                             *)
(* a row of roles [uuid, name], a row of user_roles [user_uuid, role_uuid].*)
(***************************************************************************)
\* uuid PRIMARY KEY, username UNIQUE, email UNIQUE
UsersConstraintsHold(us) ==
    \A r1, r2 \in us :
        r1 # r2 => /\ r1.uuid # r2.uuid
                   /\ r1.username # r2.username
                   /\ r1.email # r2.email

\* The row as the store leaves it after an UPDATE: updated_on is set to the
\* store's clock, which counts seconds.
Touch(row, t) == [row EXCEPT !.updated_on = t]

\* INSERT INTO users (uuid, first_name, last_name, username, email, password):
\* the columns the statement does not name take the table's defaults.
NewRow(uuid, firstName, lastName, username, email, password, t) ==
    [uuid |-> uuid, first_name |-> firstName, last_name |-> lastName,
     username |-> username, email |-> email, password |-> password,
     email_verified |-> FALSE, can_signin |-> TRUE, updated_on |-> t]

\* (*AuthUser)(nil)
NilUser ==
    [Uuid |-> <<>>, FirstName |-> <<>>, LastName |-> <<>>, Username |-> <<>>,
     Email |-> <<>>, HashedPassword |-> MalformedHash, EmailVerified |-> FALSE,
     CanSignIn |-> FALSE, Updated |-> 0]

\* NewAuthUser leaving EmailVerified at its zero value
NewAuthUser_DropVerified(uuid, firstName, lastName, userName, email, hashedPassword, isVerified, canSignIn, updated) ==
    [Uuid |-> uuid, FirstName |-> firstName, LastName |-> lastName,
     Username |-> userName, Email |-> email, HashedPassword |-> hashedPassword,
     EmailVerified |-> FALSE, CanSignIn |-> canSignIn, Updated |-> updated]

NewAuthUser(uuid, firstName, lastName, userName, email, hashedPassword, isVerified, canSignIn, updated) ==
    [Uuid |-> uuid, FirstName |-> firstName, LastName |-> lastName,
     Username |-> userName, Email |-> email, HashedPassword |-> hashedPassword,
     EmailVerified |-> isVerified, CanSignIn |-> canSignIn, Updated |-> updated]

\* Uuid(): a value no row has yet (the first of the pool that is free)
Uuid(us) ==
    LET free == {i \in 1..Len(UuidPool) : \A r \in us : r.uuid # UuidPool[i]}
    IN  UuidPool[CHOOSE i \in free : \A j \in free : i <= j]

UuidAvailable(us) == \E i \in 1..Len(UuidPool) : \A r \in us : r.uuid # UuidPool[i]

(***************************************************************************)
(* Lookups. Each returns [err, user, stmts]: stmts lists the statements    *)
(* the call sent to the store, in order.                                   *)
(***************************************************************************)
FindUserByEmail(us, address) ==
    LET rows == {r \in us : r.email = address}
    IN  IF rows = {}
        THEN [err |-> ErrNoRows, user |-> NilUser, stmts |-> <<"findUserByEmail">>]
        ELSE LET r == CHOOSE r \in rows : TRUE
             IN  [err |-> Nil,
                  user |-> NewAuthUser(r.uuid, r.first_name, r.last_name, r.username,
                                       address, r.password, r.email_verified,
                                       r.can_signin, r.updated_on),
                  stmts |-> <<"findUserByEmail">>]

FindUserByUsername(us, username) ==
    IF CheckUsername(username) # Nil
    THEN [err |-> CheckUsername(username), user |-> NilUser, stmts |-> <<>>]
    ELSE LET rows == {r \in us : r.username = username}
         IN  IF rows = {}
             THEN LET e == ParseAddress(username)
                  IN  IF e.err # Nil
                      THEN [err |-> e.err, user |-> NilUser,
                            stmts |-> <<"findUserByUsername">>]
                      ELSE LET f == FindUserByEmail(us, e.Address)
                           IN  [f EXCEPT !.stmts = <<"findUserByUsername">> \o f.stmts]
             ELSE LET r == CHOOSE r \in rows : TRUE
                  IN  [err |-> Nil,
                       user |-> NewAuthUser(r.uuid, r.first_name, r.last_name, username,
                                            r.email, r.password, r.email_verified,
                                            r.can_signin, r.updated_on),
                       stmts |-> <<"findUserByUsername">>]

FindUserByUuid(us, uuid) ==
    LET rows == {r \in us : r.uuid = uuid}
    IN  IF rows = {}
        THEN [err |-> ErrNoRows, user |-> NilUser, stmts |-> <<"findUserById">>]
        ELSE LET r == CHOOSE r \in rows : TRUE
             IN  [err |-> Nil,
                  user |-> NewAuthUser(uuid, r.first_name, r.last_name, r.username,
                                       r.email, r.password, r.email_verified,
                                       r.can_signin, r.updated_on),
                  stmts |-> <<"findUserById">>]

\* FindUserById trying the email before the username
FindUserById_EmailFirst(us, id) ==
    LET byName == FindUserByUsername(us, id)
        email == ParseAddress(id)
        byEmail == FindUserByEmail(us, email.Address)
        byUuid == FindUserByUuid(us, id)
    IN  IF email.err = Nil /\ byEmail.err = Nil THEN byEmail
        ELSE IF byName.err = Nil
             THEN [byName EXCEPT !.stmts = byEmail.stmts \o byName.stmts]
        ELSE [byUuid EXCEPT !.stmts = byName.stmts \o byUuid.stmts]

FindUserById(us, id) ==
    LET byName == FindUserByUsername(us, id)
        email == ParseAddress(id)
        byEmail == FindUserByEmail(us, email.Address)
        byUuid == FindUserByUuid(us, id)
    IN  IF byName.err = Nil THEN byName
        ELSE IF email.err = Nil /\ byEmail.err = Nil
             THEN [byEmail EXCEPT !.stmts = byName.stmts \o byEmail.stmts]
        ELSE IF email.err = Nil
             THEN [byUuid EXCEPT !.stmts = byName.stmts \o byEmail.stmts \o byUuid.stmts]
        ELSE [byUuid EXCEPT !.stmts = byName.stmts \o byUuid.stmts]

(***************************************************************************)
(* Setters. Each returns [err, users, stmts]. An UPDATE whose WHERE clause *)
(* matches no row changes nothing and is no error.                         *)
(***************************************************************************)
\* the table after the UPDATE, or the constraint it violates
ExecUpdate(us, new) ==
    IF UsersConstraintsHold(new) THEN [err |-> Nil, users |-> new]
    ELSE [err |-> ErrConstraint, users |-> us]

\* SetIsVerified negating the flag
SetIsVerified_Toggle(us, userId, t) ==
    LET x == ExecUpdate(us, {IF r.uuid = userId
                             THEN Touch([r EXCEPT !.email_verified = ~@], t)
                             ELSE r : r \in us})
    IN  [err |-> x.err, users |-> x.users, stmts |-> <<"setEmailVerified">>]

SetIsVerified(us, userId, t) ==
    LET x == ExecUpdate(us, {IF r.uuid = userId
                             THEN Touch([r EXCEPT !.email_verified = TRUE], t)
                             ELSE r : r \in us})
    IN  [err |-> x.err, users |-> x.users, stmts |-> <<"setEmailVerified">>]

\* SetPassword hashing the password and not storing the hash
SetPassword_NoWrite(us, uuid, password, salt, t) ==
    IF CheckPassword(password) # Nil
    THEN [err |-> CheckPassword(password), users |-> us, stmts |-> <<>>]
    ELSE IF HashPassword(password, salt).panic
    THEN [err |-> Panic, users |-> us, stmts |-> <<>>]
    ELSE [err |-> Nil, users |-> us, stmts |-> <<>>]

SetPassword(us, uuid, password, salt, t) ==
    LET hash == HashPassword(password, salt)
        x == ExecUpdate(us, {IF r.uuid = uuid
                             THEN Touch([r EXCEPT !.password = hash.hash], t)
                             ELSE r : r \in us})
    IN  IF CheckPassword(password) # Nil
        THEN [err |-> CheckPassword(password), users |-> us, stmts |-> <<>>]
        ELSE IF hash.panic THEN [err |-> Panic, users |-> us, stmts |-> <<>>]
        ELSE [err |-> IF x.err # Nil THEN ErrCouldNotUpdatePassword ELSE Nil,
              users |-> x.users, stmts |-> <<"setPassword">>]

\* SetUsername writing before it validates
SetUsername_WriteFirst(us, uuid, username, t) ==
    LET x == ExecUpdate(us, {IF r.uuid = uuid
                             THEN Touch([r EXCEPT !.username = username], t)
                             ELSE r : r \in us})
    IN  IF x.err # Nil
        THEN [err |-> ErrCouldNotUpdateUsername, users |-> x.users, stmts |-> <<"setUsername">>]
        ELSE [err |-> CheckUsername(username), users |-> x.users, stmts |-> <<"setUsername">>]

SetUsername(us, uuid, username, t) ==
    LET x == ExecUpdate(us, {IF r.uuid = uuid
                             THEN Touch([r EXCEPT !.username = username], t)
                             ELSE r : r \in us})
    IN  IF CheckUsername(username) # Nil
        THEN [err |-> CheckUsername(username), users |-> us, stmts |-> <<>>]
        ELSE [err |-> IF x.err # Nil THEN ErrCouldNotUpdateUsername ELSE Nil,
              users |-> x.users, stmts |-> <<"setUsername">>]

SetName(us, uuid, firstName, lastName, t) ==
    LET x == ExecUpdate(us, {IF r.uuid = uuid
                             THEN Touch([r EXCEPT !.first_name = firstName,
                                                  !.last_name = lastName], t)
                             ELSE r : r \in us})
    IN  IF CheckName(firstName) # Nil
        THEN [err |-> CheckName(firstName), users |-> us, stmts |-> <<>>]
        ELSE IF CheckName(lastName) # Nil
        THEN [err |-> CheckName(lastName), users |-> us, stmts |-> <<>>]
        ELSE [err |-> IF x.err # Nil THEN ErrCouldNotUpdateName ELSE Nil,
              users |-> x.users, stmts |-> <<"setName">>]

SetUserInfo(us, uuid, username, firstName, lastName, t) ==
    LET x == ExecUpdate(us, {IF r.uuid = uuid
                             THEN Touch([r EXCEPT !.username = username,
                                                  !.first_name = firstName,
                                                  !.last_name = lastName], t)
                             ELSE r : r \in us})
    IN  IF CheckUsername(username) # Nil
        THEN [err |-> CheckUsername(username), users |-> us, stmts |-> <<>>]
        ELSE IF CheckName(firstName) # Nil
        THEN [err |-> CheckName(firstName), users |-> us, stmts |-> <<>>]
        ELSE IF CheckName(lastName) # Nil
        THEN [err |-> CheckName(lastName), users |-> us, stmts |-> <<>>]
        ELSE [err |-> IF x.err # Nil THEN ErrCouldNotUpdateInfo ELSE Nil,
              users |-> x.users, stmts |-> <<"setInfo">>]

\* SetEmailAddress clearing the flag that was set for the address before
SetEmailAddress_Unverify(us, uuid, address, t) ==
    LET x == ExecUpdate(us, {IF r.uuid = uuid
                             THEN Touch([r EXCEPT !.email = address,
                                                  !.email_verified = FALSE], t)
                             ELSE r : r \in us})
    IN  [err |-> IF x.err # Nil THEN ErrCouldNotUpdateEmail ELSE Nil,
         users |-> x.users, stmts |-> <<"setEmail">>]

SetEmailAddress(us, uuid, address, t) ==
    LET x == ExecUpdate(us, {IF r.uuid = uuid
                             THEN Touch([r EXCEPT !.email = address], t)
                             ELSE r : r \in us})
    IN  [err |-> IF x.err # Nil THEN ErrCouldNotUpdateEmail ELSE Nil,
         users |-> x.users, stmts |-> <<"setEmail">>]

SetEmail(us, uuid, email, t) ==
    LET address == CheckEmailIsWellFormed(email)
    IN  IF address.err # Nil
        THEN [err |-> address.err, users |-> us, stmts |-> <<>>]
        ELSE SetEmailAddress(us, uuid, address.Address, t)

(***************************************************************************)
(* Roles.                                                                  *)
(***************************************************************************)
NilRole == [Uuid |-> <<>>, Name |-> <<>>]

\* rows.Scan(dest...): a destination that is no pointer is an error
Scan(destsArePointers, row) ==
    IF destsArePointers THEN [err |-> Nil, role |-> [Uuid |-> row.uuid, Name |-> row.name]]
    ELSE [err |-> ErrScanNotPointer, role |-> NilRole]

\* Role scans into role.Uuid and role.Name, the fields' values, not &role.Uuid
\* and &role.Name
Role(rl, name) ==
    LET rows == {r \in rl : r.name = name}
    IN  IF rows = {} THEN [err |-> ErrNoRows, role |-> NilRole]
        ELSE Scan(FALSE, CHOOSE r \in rows : TRUE)

\* [err, user_roles]
AddUserRole(rl, ur, user, role) ==
    LET r == Role(rl, role)
        row == [user_uuid |-> user.Uuid, role_uuid |-> r.role.Uuid]
    IN  IF r.err # Nil THEN [err |-> ErrRoleNotAvailable, user_roles |-> ur]
        ELSE IF row \in ur THEN [err |-> ErrRoleNotAvailable, user_roles |-> ur]
        ELSE [err |-> Nil, user_roles |-> ur \cup {row}]

(***************************************************************************)
(* The aggregation queries. A statement is the tables of its FROM clause   *)
(* and the tables its columns name; the store rejects a statement that     *)
(* names a column of a table its FROM clause does not list.                *)
(***************************************************************************)
ROLES_SQL ==
    [from |-> {"user_roles", "roles"}, names |-> {"roles", "user_roles"}]
USER_ROLE_PERMISSIONS_SQL ==
    [from |-> {"user_roles", "role_permissions", "permissions"},
     names |-> {"roles", "permissions", "user_roles", "role_permissions"}]
USER_PERMISSIONS_SQL ==
    [from |-> {"user_roles", "role_permissions", "permissions"},
     names |-> {"permissions", "user_roles", "role_permissions"}]

ErrNoSuchColumn == "no such column: roles.uuid"

\* Query(sql, args...): the error of compiling the statement
Query(sql) == IF sql.names \subseteq sql.from THEN Nil ELSE ErrNoSuchColumn

\* The characters of the names, in the order of their bytes.
Bytes ==
    <<"-", ".", "0", "1", "2", "3", "4", "5", "6", "7", "8", "9", "@",
      "A", "B", "C", "D", "E", "F", "G", "H", "I", "J", "K", "L", "M",
      "N", "O", "P", "Q", "R", "S", "T", "U", "V", "W", "X", "Y", "Z", "_",
      "a", "b", "c", "d", "e", "f", "g", "h", "i", "j", "k", "l", "m",
      "n", "o", "p", "q", "r", "s", "t", "u", "v", "w", "x", "y", "z">>
Byte(c) == CHOOSE i \in 1..Len(Bytes) : Bytes[i] = c

\* a sorts before b: the comparison ORDER BY makes of two texts
TextLess(a, b) ==
    \E k \in 1..Len(b) :
        /\ k - 1 <= Len(a)
        /\ \A j \in 1..(k - 1) : a[j] = b[j]
        /\ (k <= Len(a) => Byte(a[k]) < Byte(b[k]))

\* ORDER BY's comparison of two rows by their keys, the ordering terms in order
KeyLess(k1, k2) ==
    \E i \in 1..Len(k1) :
        /\ \A j \in 1..(i - 1) : k1[j] = k2[j]
        /\ TextLess(k1[i], k2[i])

\* ORDER BY: the rows, each [key, row], as a sequence in the order of the keys
RECURSIVE OrderBy(_)
OrderBy(rows) ==
    IF rows = {} THEN <<>>
    ELSE LET first == CHOOSE r \in rows : \A o \in rows : ~KeyLess(o.key, r.key)
         IN  <<first.row>> \o OrderBy(rows \ {first})

\* [err, ret]: ret is the []Role
UserRoles(rl, ur, user) ==
    LET rows == {[key |-> <<r.name>>, row |-> [Uuid |-> r.uuid, Name |-> r.name]] :
                    r \in {r \in rl : \E a \in ur : /\ a.user_uuid = user.Uuid
                                                     /\ r.uuid = a.role_uuid}}
    IN  IF Query(ROLES_SQL) # Nil THEN [err |-> Query(ROLES_SQL), ret |-> <<>>]
        ELSE [err |-> Nil, ret |-> OrderBy(rows)]

\* the rows of SELECT DISTINCT permissions.uuid, permissions.name
PermissionsOf(ur, rp, pm, user) ==
    {p \in pm : \E a \in ur, g \in rp : /\ a.user_uuid = user.Uuid
                                         /\ g.role_uuid = a.role_uuid
                                         /\ p.uuid = g.permission_uuid}

\* UserPermissions with ORDER BY permissions.uuid
UserPermissions_ByUuid(ur, rp, pm, user) ==
    LET rows == {[key |-> <<p.uuid>>, row |-> [Uuid |-> p.uuid, Name |-> p.name]] :
                    p \in PermissionsOf(ur, rp, pm, user)}
    IN  [err |-> Nil, ret |-> OrderBy(rows)]

\* [err, ret]: ret is the []Permission
UserPermissions(ur, rp, pm, user) ==
    LET rows == {[key |-> <<p.name>>, row |-> [Uuid |-> p.uuid, Name |-> p.name]] :
                    p \in PermissionsOf(ur, rp, pm, user)}
    IN  IF Query(USER_PERMISSIONS_SQL) # Nil
        THEN [err |-> Query(USER_PERMISSIONS_SQL), ret |-> <<>>]
        ELSE [err |-> Nil, ret |-> OrderBy(rows)]

\* The loop of PublicUserRolePermissions over rows i.. of the result: ret is the
\* []PublicRole so far and currentRole the role uuid of the row before.
RECURSIVE GroupRows(_, _, _, _)
GroupRows(rows, i, currentRole, ret) ==
    IF i > Len(rows) THEN ret
    ELSE LET row == rows[i]
             opened == IF row.role_uuid # currentRole
                       THEN Append(ret, [Name |-> row.role_name, Permissions |-> <<>>])
                       ELSE ret
             idx == Len(opened)
         IN  GroupRows(rows, i + 1, row.role_uuid,
                       [opened EXCEPT ![idx].Permissions =
                                          Append(@, row.permission_name)])

\* [err, ret]: ret is the []PublicRole. The statement names roles.uuid and
\* roles.name, and its FROM clause does not list roles.
PublicUserRolePermissions(rl, ur, rp, pm, user) ==
    LET rows == {[key |-> <<r.name, p.name>>,
                  row |-> [role_uuid |-> r.uuid, role_name |-> r.name,
                           permission_uuid |-> p.uuid, permission_name |-> p.name]] :
                    <<r, p>> \in {x \in rl \X pm :
                                    \E a \in ur, g \in rp :
                                        /\ a.user_uuid = user.Uuid
                                        /\ g.role_uuid = a.role_uuid
                                        /\ x[1].uuid = a.role_uuid
                                        /\ x[2].uuid = g.permission_uuid}}
    IN  IF Query(USER_ROLE_PERMISSIONS_SQL) # Nil
        THEN [err |-> Query(USER_ROLE_PERMISSIONS_SQL), ret |-> <<>>]
        ELSE [err |-> Nil, ret |-> GroupRows(OrderBy(rows), 1, <<>>, <<>>)]

(***************************************************************************)
(* Construction. A database file is the set of the tables it has.          *)
(***************************************************************************)
\* the ten statements on table users (FIND_USER_BY_*_SQL, CREATE_USER_SQL, SET_*_SQL)
USERS_SQL == [from |-> {"users"}, names |-> {"users"}]

Tables == {"users", "roles", "user_roles", "permissions", "role_permissions"}

\* db.Prepare(sql): the error of compiling the statement against the file
Prepare(file, sql) ==
    IF ~(sql.from \subseteq file) THEN "no such table"
    ELSE Query(sql)

\* [panic, err]: sys.Must panics on the error of sql.Open or of a db.Prepare, and
\* the error NewUserDB returns is always nil
NewUserDB(file) ==
    [panic |-> \E sql \in {USERS_SQL, ROLES_SQL, USER_PERMISSIONS_SQL} :
                  Prepare(file, sql) # Nil,
     err |-> Nil]

(***************************************************************************)
(* Registration. user is a SignupReq [FirstName, LastName, Email,          *)
(* Password]. Returns [err, user, users, user_roles, stmts, outcome,       *)
(* roleErr]: outcome names the branch taken and roleErr is what            *)
(* AddUserRole returned, which the code drops.                             *)
(***************************************************************************)
\* SignupReq.HashedPassword()
HashedPassword(user, salt) == HashPassword(user.Password, salt)

Failed(us, ur, err, stmts, outcome) ==
    [err |-> err, user |-> NilUser, users |-> us, user_roles |-> ur,
     stmts |-> stmts, outcome |-> outcome, roleErr |-> Nil]

CreateStandardUser(us, rl, ur, user, salt, t) ==
    LET email == ParseAddress(user.Email)
        found == FindUserByEmail(us, email.Address)
        \* the branch that creates the row
        hash == HashedPassword(user, salt)
        uuid == Uuid(us)
        inserted == us \cup {NewRow(uuid, user.FirstName, user.LastName,
                                    email.Address, email.Address, hash.hash, t)}
        reread == FindUserByEmail(inserted, email.Address)
        \* the branch that reuses the row
        set == SetPassword(us, found.user.Uuid, user.Password, salt, t)
    IN  IF CheckPassword(user.Password) # Nil
        THEN Failed(us, ur, CheckPassword(user.Password), <<>>, "Invalid")
        ELSE IF email.err # Nil
        THEN Failed(us, ur, email.err, <<>>, "Invalid")
        ELSE IF found.err # Nil
        THEN IF hash.panic
             THEN Failed(us, ur, Panic, found.stmts, "Panic")
             ELSE IF ~UsersConstraintsHold(inserted)
             THEN Failed(us, ur, ErrConstraint, found.stmts \o <<"createUser">>, "StoreError")
             ELSE LET grant == AddUserRole(rl, ur, reread.user, STANDARD_ROLE)
                  IN  [err |-> Nil, user |-> reread.user, users |-> inserted,
                       user_roles |-> grant.user_roles,
                       stmts |-> found.stmts \o <<"createUser">> \o reread.stmts,
                       outcome |-> "Created", roleErr |-> grant.err]
        ELSE IF found.user.EmailVerified
        THEN Failed(us, ur, ErrAlreadyRegistered, found.stmts, "Rejected")
        ELSE IF set.err = Panic
        THEN Failed(us, ur, Panic, found.stmts, "Panic")
        ELSE IF set.err # Nil
        THEN Failed(set.users, ur, ErrAlreadyRegistered, found.stmts \o set.stmts, "Rejected")
        ELSE LET grant == AddUserRole(rl, ur, found.user, STANDARD_ROLE)
             IN  [err |-> Nil, user |-> found.user, users |-> set.users,
                  user_roles |-> grant.user_roles,
                  stmts |-> found.stmts \o set.stmts,
                  outcome |-> "Reissued", roleErr |-> grant.err]

(***************************************************************************)
(* The calls. last records the call made and what it returned.             *)
(***************************************************************************)
NoCall ==
    [op |-> "none", id |-> <<>>, password |-> <<>>, other |-> <<>>, username |-> <<>>,
     firstName |-> <<>>, lastName |-> <<>>, salt |-> 0, err |-> Nil, user |-> NilUser,
     stmts |-> <<>>, outcome |-> "", roleErr |-> Nil, hash |-> MalformedHash,
     ret |-> <<>>]

\* The tables this package only reads, as their administrator filled them. The
\* uuids are not in the order of the names.
RoleRows ==
    {[uuid |-> <<"r", "-", "1">>, name |-> STANDARD_ROLE],
     [uuid |-> <<"r", "-", "2">>, name |-> R_admin]}
PermissionRows ==
    {[uuid |-> <<"p", "-", "1">>, name |-> <<"v", "i", "e", "w">>],
     [uuid |-> <<"p", "-", "2">>, name |-> <<"e", "d", "i", "t">>],
     [uuid |-> <<"p", "-", "3">>, name |-> <<"r", "e", "a", "d">>]}

\* the concurrent callers, and a caller that is in no call
Procs == {"c1", "c2"}
Idle ==
    [pc |-> "idle", Email |-> <<>>, Password |-> <<>>, address |-> <<>>,
     user |-> NilUser, err |-> Nil, outcome |-> ""]

Init ==
    /\ users = {}
    /\ roles = RoleRows
    /\ user_roles = {}
    /\ permissions = PermissionRows
    /\ role_permissions = {}
    /\ calls = [p \in Procs |-> Idle]
    /\ now = StartTime
    /\ otps = {}
    /\ last = NoCall

\* a second passes
Tick ==
    /\ now < StartTime + MaxTicks
    /\ now' = now + 1
    /\ UNCHANGED <<permissions, role_permissions, calls, users, roles, user_roles, otps, last>>

\* userdb.CreateStandardUser(&SignupReq{...})
Register(firstName, email, password, salt) ==
    LET req == [FirstName |-> firstName, LastName |-> S_Smith, Email |-> email,
                Password |-> password]
        x == CreateStandardUser(users, roles, user_roles, req, salt, now)
    IN  /\ \/ CheckPassword(password) # Nil
           \/ ParseAddress(email).err # Nil
           \/ FindUserByEmail(users, ParseAddress(email).Address).err = Nil
           \/ UuidAvailable(users)
        /\ users' = x.users
        /\ user_roles' = x.user_roles
        /\ last' = [NoCall EXCEPT !.op = "CreateStandardUser", !.id = email,
                                  !.firstName = firstName, !.lastName = S_Smith,
                                  !.password = password, !.salt = salt, !.err = x.err,
                                  !.user = x.user, !.stmts = x.stmts,
                                  !.outcome = x.outcome, !.roleErr = x.roleErr]
        /\ UNCHANGED <<permissions, role_permissions, calls, roles, now, otps>>

\* userdb.FindUserById(id)
Resolve(id) ==
    LET x == FindUserById(users, id)
    IN  /\ last' = [NoCall EXCEPT !.op = "FindUserById", !.id = id, !.err = x.err,
                                  !.user = x.user, !.stmts = x.stmts]
        /\ UNCHANGED <<permissions, role_permissions, calls, users, roles, user_roles, now, otps>>

\* a lookup called as `call` returned x
Found(call, x) ==
    /\ last' = [call EXCEPT !.err = x.err, !.user = x.user, !.stmts = x.stmts]
    /\ UNCHANGED <<users, roles, user_roles, permissions, role_permissions, calls, now, otps>>

\* userdb.FindUserByUsername(username)
DoFindUserByUsername(username) ==
    Found([NoCall EXCEPT !.op = "FindUserByUsername", !.id = username],
          FindUserByUsername(users, username))

\* userdb.FindUserByEmail(email), email a parsed address
DoFindUserByEmail(address) ==
    Found([NoCall EXCEPT !.op = "FindUserByEmail", !.id = address],
          FindUserByEmail(users, address))

\* userdb.FindUserByUuid(uuid)
DoFindUserByUuid(uuid) ==
    Found([NoCall EXCEPT !.op = "FindUserByUuid", !.id = uuid],
          FindUserByUuid(users, uuid))

\* userdb.InitDB(file): NewUserDB on a database file
DoNewUserDB(file) ==
    LET x == NewUserDB(file)
    IN  /\ last' = [NoCall EXCEPT !.op = "NewUserDB",
                                  !.err = IF x.panic THEN Panic ELSE x.err]
        /\ UNCHANGED <<users, roles, user_roles, permissions, role_permissions, calls, now, otps>>

\* a setter called as `call` returned x
Returned(call, x) ==
    /\ users' = x.users
    /\ last' = [call EXCEPT !.err = x.err, !.stmts = x.stmts]
    /\ UNCHANGED <<permissions, role_permissions, calls, roles, user_roles, now, otps>>

\* user records the account as it was when the call was made
DoSetIsVerified(uuid) ==
    Returned([NoCall EXCEPT !.op = "SetIsVerified", !.id = uuid,
                            !.user = FindUserByUuid(users, uuid).user],
             SetIsVerified(users, uuid, now))

DoSetPassword(uuid, password, salt) ==
    Returned([NoCall EXCEPT !.op = "SetPassword", !.id = uuid, !.password = password,
                            !.salt = salt],
             SetPassword(users, uuid, password, salt, now))

DoSetUsername(uuid, username) ==
    Returned([NoCall EXCEPT !.op = "SetUsername", !.id = uuid, !.username = username],
             SetUsername(users, uuid, username, now))

DoSetName(uuid, firstName, lastName) ==
    Returned([NoCall EXCEPT !.op = "SetName", !.id = uuid, !.firstName = firstName,
                            !.lastName = lastName],
             SetName(users, uuid, firstName, lastName, now))

DoSetUserInfo(uuid, username, firstName, lastName) ==
    Returned([NoCall EXCEPT !.op = "SetUserInfo", !.id = uuid, !.username = username,
                            !.firstName = firstName, !.lastName = lastName],
             SetUserInfo(users, uuid, username, firstName, lastName, now))

DoSetEmail(uuid, email) ==
    Returned([NoCall EXCEPT !.op = "SetEmail", !.id = uuid, !.other = email],
             SetEmail(users, uuid, email, now))

\* CreateOtp(user), for a user read by FindUserByUuid
DoCreateOtp(uuid, salt) ==
    LET f == FindUserByUuid(users, uuid)
        otp == CreateOtp(f.user, salt)
    IN  /\ f.err = Nil
        /\ Cardinality(otps) < MaxOtps
        /\ otps' = otps \cup {[uuid |-> uuid, code |-> otp.hash, updated |-> f.user.Updated]}
        /\ last' = [NoCall EXCEPT !.op = "CreateOtp", !.id = uuid, !.salt = salt,
                                  !.user = f.user, !.hash = otp.hash,
                                  !.err = IF otp.panic THEN Panic ELSE Nil]
        /\ UNCHANGED <<permissions, role_permissions, calls, users, roles, user_roles, now>>

\* CheckOtpValid(user, otp), for a user read by FindUserByUuid
DoCheckOtpValid(uuid, o) ==
    LET f == FindUserByUuid(users, uuid)
    IN  /\ f.err = Nil
        /\ last' = [NoCall EXCEPT !.op = "CheckOtpValid", !.id = uuid, !.user = f.user,
                                  !.hash = o.code, !.err = CheckOtpValid(f.user, o.code)]
        /\ UNCHANGED <<permissions, role_permissions, calls, users, roles, user_roles, now, otps>>

\* CheckPasswordsMatch(HashPassword(password), other)
DoHashAndCheck(password, other, salt) ==
    LET h == HashPassword(password, salt)
    IN  /\ last' = [NoCall EXCEPT !.op = "CheckPasswordsMatch", !.password = password,
                                  !.other = other, !.salt = salt, !.hash = h.hash,
                                  !.err = IF h.panic THEN Panic
                                          ELSE CheckPasswordsMatch(h.hash, other)]
        /\ UNCHANGED <<permissions, role_permissions, calls, users, roles, user_roles, now, otps>>

\* CheckPasswordsMatch on a string that is no hash
DoCheckMalformed(other) ==
    /\ last' = [NoCall EXCEPT !.op = "CheckPasswordsMatch", !.other = other,
                              !.outcome = "malformed",
                              !.err = CheckPasswordsMatch(MalformedHash, other)]
    /\ UNCHANGED <<permissions, role_permissions, calls, users, roles, user_roles, now, otps>>

\* the AuthUser the role calls are made for: they read its Uuid
UserOf(uuid) == [NilUser EXCEPT !.Uuid = uuid]

Answered(call, x) ==
    /\ last' = [call EXCEPT !.err = x.err, !.ret = x.ret]
    /\ UNCHANGED <<users, roles, user_roles, permissions, role_permissions, calls, now, otps>>

\* userdb.UserRoles(user)
DoUserRoles(uuid) ==
    Answered([NoCall EXCEPT !.op = "UserRoles", !.id = uuid],
             UserRoles(roles, user_roles, UserOf(uuid)))

\* userdb.UserPermissions(user)
DoUserPermissions(uuid) ==
    Answered([NoCall EXCEPT !.op = "UserPermissions", !.id = uuid],
             UserPermissions(user_roles, role_permissions, permissions, UserOf(uuid)))

\* userdb.PublicUserRolePermissions(user)
DoPublicUserRolePermissions(uuid) ==
    Answered([NoCall EXCEPT !.op = "PublicUserRolePermissions", !.id = uuid],
             PublicUserRolePermissions(roles, user_roles, role_permissions, permissions,
                                       UserOf(uuid)))

\* AddUserRole(user, role)
DoAddUserRole(uuid, role) ==
    LET x == AddUserRole(roles, user_roles, UserOf(uuid), role)
    IN  /\ user_roles' = x.user_roles
        /\ last' = [NoCall EXCEPT !.op = "AddUserRole", !.id = uuid, !.other = role,
                                  !.err = x.err]
        /\ UNCHANGED <<users, roles, permissions, role_permissions, calls, now, otps>>

\* CheckPassword(password)
DoCheckPassword(password) ==
    /\ last' = [NoCall EXCEPT !.op = "CheckPassword", !.password = password,
                              !.err = CheckPassword(password)]
    /\ UNCHANGED <<permissions, role_permissions, calls, users, roles, user_roles, now, otps>>

(***************************************************************************)
(* Spec: the identity store, the resolver and the registration workflow.   *)
(***************************************************************************)
Uuids == {UuidPool[i] : i \in 1..Len(UuidPool)}

\* a database file with the schema, and one that was never initialised
Files == {Tables, {}}

Next ==
    \/ \E e \in Emails, p \in Passwords, s \in StoreSalts : Register(S_alice, e, p, s)
    \/ \E id \in Tokens : Resolve(id)
    \/ \E id \in Tokens : DoFindUserByUsername(id)
    \/ \E a \in Addresses : DoFindUserByEmail(a)
    \/ \E u \in Uuids : DoFindUserByUuid(u)
    \/ \E file \in Files : DoNewUserDB(file)
    \/ \E u \in Uuids : DoSetIsVerified(u)
    \/ \E u \in Uuids, p \in Passwords, s \in StoreSalts : DoSetPassword(u, p, s)
    \/ \E u \in Uuids, n \in Usernames : DoSetUsername(u, n)
    \/ \E u \in Uuids, f \in FirstNames : DoSetName(u, f, S_Smith)
    \/ \E u \in Uuids, n \in Usernames, f \in FirstNames : DoSetUserInfo(u, n, f, S_Smith)
    \/ \E u \in Uuids, e \in NewEmails : DoSetEmail(u, e)

Spec == Init /\ [][Next]_vars

(***************************************************************************)
(* SpecCodec: the credential codec over one account, which every setter    *)
(* updates (SetEmail with the address the account has).                    *)
(***************************************************************************)
NextCodec ==
    \/ Tick
    \/ \E p \in {P_1, P_2}, s \in Salts : Register(S_Al, E_bob, p, s)
    \/ DoSetIsVerified(U_1)
    \/ \E p \in {P_1, P_2}, s \in Salts : DoSetPassword(U_1, p, s)
    \/ DoSetUsername(U_1, S_alice)
    \/ DoSetName(U_1, S_alice, S_Smith)
    \/ DoSetUserInfo(U_1, S_alice, S_alice, S_Smith)
    \/ DoSetEmail(U_1, E_bob)
    \/ \E s \in Salts : DoCreateOtp(U_1, s)
    \/ \E o \in otps : DoCheckOtpValid(U_1, o)

SpecCodec == Init /\ [][NextCodec]_vars

(***************************************************************************)
(* SpecHash: HashPassword and CheckPasswordsMatch on every pair of         *)
(* passwords. The initial states are the calls about to be made.           *)
(***************************************************************************)
InitHash ==
    /\ users = {}
    /\ roles = {}
    /\ user_roles = {}
    /\ permissions = {}
    /\ role_permissions = {}
    /\ calls = [p \in Procs |-> Idle]
    /\ now = StartTime
    /\ otps = {}
    /\ \E p, q \in AllPasswords, s \in Salts :
           last = [NoCall EXCEPT !.op = "call", !.password = p, !.other = q, !.salt = s]

NextHash ==
    \/ last.op = "call" /\ DoHashAndCheck(last.password, last.other, last.salt)
    \/ last.op = "call" /\ DoCheckMalformed(last.other)

SpecHash == InitHash /\ [][NextHash]_vars

(***************************************************************************)
(* SpecValidate: CheckPassword, and the calls that validate a password     *)
(* with it, on every input. The initial states are the inputs; every call  *)
(* is made with the input of the behaviour.                                *)
(***************************************************************************)
InitValidate ==
    /\ users = {}
    /\ roles = {[uuid |-> <<"r", "-", "1">>, name |-> STANDARD_ROLE]}
    /\ user_roles = {}
    /\ permissions = {}
    /\ role_permissions = {}
    /\ calls = [p \in Procs |-> Idle]
    /\ now = StartTime
    /\ otps = {}
    /\ \E p \in ValidatorInputs : last = [NoCall EXCEPT !.op = "call", !.password = p]

NextValidate ==
    \/ DoCheckPassword(last.password)
    \/ Register(S_alice, E_bob, last.password, 1)
    \/ DoSetPassword(U_1, last.password, 1)

SpecValidate == InitValidate /\ [][NextValidate]_vars

(***************************************************************************)
(* SpecConc: concurrent callers. CreateStandardUser holds no lock and      *)
(* opens no transaction: each statement it sends to the store is a step of *)
(* its own, and the statements of other callers come between. calls[c] is  *)
(* the registration caller c is in: the statement it sends next, its       *)
(* request, and what it has read.                                          *)
(***************************************************************************)
\* the call of c ends
Ends(c, err, outcome) ==
    calls' = [calls EXCEPT ![c].pc = "done", ![c].err = err, ![c].outcome = outcome]

\* c calls CreateStandardUser: the password and the email are checked
RegBegin(c, email, password) ==
    LET parsed == ParseAddress(email)
        call == [Idle EXCEPT !.Email = email, !.Password = password,
                             !.address = parsed.Address]
    IN  /\ calls[c].pc = "idle"
        /\ calls' = [calls EXCEPT ![c] =
               IF CheckPassword(password) # Nil
               THEN [call EXCEPT !.pc = "done", !.err = CheckPassword(password),
                                 !.outcome = "Invalid"]
               ELSE IF parsed.err # Nil
               THEN [call EXCEPT !.pc = "done", !.err = parsed.err, !.outcome = "Invalid"]
               ELSE [call EXCEPT !.pc = "lookup"]]
        /\ UNCHANGED <<users, roles, user_roles, permissions, role_permissions, now, otps, last>>

\* FindUserByEmail, and the test of EmailVerified on what it returned
RegLookup(c) ==
    LET found == FindUserByEmail(users, calls[c].address)
    IN  /\ calls[c].pc = "lookup"
        /\ IF found.err # Nil THEN calls' = [calls EXCEPT ![c].pc = "insert"]
           ELSE IF found.user.EmailVerified THEN Ends(c, ErrAlreadyRegistered, "Rejected")
           ELSE calls' = [calls EXCEPT ![c].pc = "setpw", ![c].user = found.user]
        /\ UNCHANGED <<users, roles, user_roles, permissions, role_permissions, now, otps, last>>

\* RegInsert going on to read the account when the INSERT failed
RegInsert_IgnoreError(c) ==
    LET req == [FirstName |-> S_alice, LastName |-> S_Smith, Email |-> calls[c].Email,
                Password |-> calls[c].Password]
        hash == HashedPassword(req, 1)
        inserted == users \cup {NewRow(Uuid(users), req.FirstName, req.LastName,
                                       calls[c].address, calls[c].address, hash.hash, now)}
    IN  /\ calls[c].pc = "insert"
        /\ UuidAvailable(users)
        /\ users' = IF UsersConstraintsHold(inserted) THEN inserted ELSE users
        /\ calls' = [calls EXCEPT ![c].pc = "reread"]
        /\ UNCHANGED <<roles, user_roles, permissions, role_permissions, now, otps, last>>

\* Uuid(), HashedPassword() and the INSERT of the row
RegInsert(c) ==
    LET req == [FirstName |-> S_alice, LastName |-> S_Smith, Email |-> calls[c].Email,
                Password |-> calls[c].Password]
        hash == HashedPassword(req, 1)
        inserted == users \cup {NewRow(Uuid(users), req.FirstName, req.LastName,
                                       calls[c].address, calls[c].address, hash.hash, now)}
    IN  /\ calls[c].pc = "insert"
        /\ UuidAvailable(users)
        /\ IF hash.panic THEN Ends(c, Panic, "Panic") /\ users' = users
           ELSE IF ~UsersConstraintsHold(inserted)
           THEN Ends(c, ErrConstraint, "StoreError") /\ users' = users
           ELSE calls' = [calls EXCEPT ![c].pc = "reread"] /\ users' = inserted
        /\ UNCHANGED <<roles, user_roles, permissions, role_permissions, now, otps, last>>

\* FindUserByEmail again, for the row inserted
RegReread(c) ==
    LET found == FindUserByEmail(users, calls[c].address)
    IN  /\ calls[c].pc = "reread"
        /\ IF found.err # Nil THEN Ends(c, found.err, "StoreError")
           ELSE calls' = [calls EXCEPT ![c].pc = "grant", ![c].user = found.user,
                                       ![c].outcome = "Created"]
        /\ UNCHANGED <<users, roles, user_roles, permissions, role_permissions, now, otps, last>>

\* SetPassword for the account the lookup returned
RegSetPassword(c) ==
    LET set == SetPassword(users, calls[c].user.Uuid, calls[c].Password, 1, now)
    IN  /\ calls[c].pc = "setpw"
        /\ users' = set.users
        /\ IF set.err = Panic THEN Ends(c, Panic, "Panic")
           ELSE IF set.err # Nil THEN Ends(c, ErrAlreadyRegistered, "Rejected")
           ELSE calls' = [calls EXCEPT ![c].pc = "grant", ![c].outcome = "Reissued"]
        /\ UNCHANGED <<roles, user_roles, permissions, role_permissions, now, otps, last>>

\* AddUserRole, its error dropped, and the return of the account
RegGrant(c) ==
    LET grant == AddUserRole(roles, user_roles, calls[c].user, STANDARD_ROLE)
    IN  /\ calls[c].pc = "grant"
        /\ user_roles' = grant.user_roles
        /\ calls' = [calls EXCEPT ![c].pc = "done", ![c].err = Nil]
        /\ UNCHANGED <<users, roles, permissions, role_permissions, now, otps, last>>

\* the password each caller registers with
PasswordOf == [c \in Procs |-> IF c = "c1" THEN P_1 ELSE P_2]

NextConc ==
    \/ \E c \in Procs, e \in Addresses : RegBegin(c, e, PasswordOf[c])
    \/ \E c \in Procs : RegLookup(c)
    \/ \E c \in Procs : RegInsert(c)
    \/ \E c \in Procs : RegReread(c)
    \/ \E c \in Procs : RegSetPassword(c)
    \/ \E c \in Procs : RegGrant(c)
    \/ \E u \in Uuids : DoSetIsVerified(u)
    \/ \E u \in Uuids, n \in {S_alice, E_bob} : DoSetUsername(u, n)
    \/ \E u \in Uuids, e \in Addresses : DoSetEmail(u, e)

SpecConc == Init /\ [][NextConc]_vars

(***************************************************************************)
(* SpecRoles: the role and permission queries and AddUserRole, over two    *)
(* registered accounts and every way the administrator can have associated *)
(* the accounts with the roles and the roles with the permissions.         *)
(***************************************************************************)
R_guest == <<"G", "u", "e", "s", "t">>
RoleNames == {STANDARD_ROLE, R_admin, R_guest}

\* the users table after the registrations of E_bob and of E_short
TwoAccounts ==
    LET req(e) == [FirstName |-> S_alice, LastName |-> S_Smith, Email |-> e,
                   Password |-> P_1]
        one == CreateStandardUser({}, RoleRows, {}, req(E_bob), 1, StartTime)
    IN  CreateStandardUser(one.users, RoleRows, one.user_roles, req(E_short), 1,
                           StartTime).users

InitRoles ==
    /\ users = TwoAccounts
    /\ roles = RoleRows
    /\ permissions = PermissionRows
    /\ user_roles \in SUBSET {[user_uuid |-> u, role_uuid |-> r.uuid] :
                                  u \in Uuids, r \in RoleRows}
    /\ role_permissions \in SUBSET {[role_uuid |-> r.uuid, permission_uuid |-> p.uuid] :
                                        r \in RoleRows, p \in PermissionRows}
    /\ calls = [p \in Procs |-> Idle]
    /\ now = StartTime
    /\ otps = {}
    /\ last = NoCall

NextRoles ==
    \/ \E u \in Uuids : DoUserRoles(u)
    \/ \E u \in Uuids : DoUserPermissions(u)
    \/ \E u \in Uuids : DoPublicUserRolePermissions(u)
    \/ \E u \in Uuids, n \in RoleNames : DoAddUserRole(u, n)

SpecRoles == InitRoles /\ [][NextRoles]_vars

(***************************************************************************)
(* Vocabulary of the properties.                                           *)
(***************************************************************************)
\* the account a lookup returns for row r
RowUser(r) ==
    NewAuthUser(r.uuid, r.first_name, r.last_name, r.username, r.email, r.password,
                r.email_verified, r.can_signin, r.updated_on)

WithEmail(us, address) == {r \in us : r.email = address}
WithUsername(us, username) == {r \in us : r.username = username}
WithUuid(us, uuid) == {r \in us : r.uuid = uuid}

\* account uuid holds the role called name
HoldsRole(rl, ur, uuid, name) ==
    \E r \in rl : r.name = name /\ [user_uuid |-> uuid, role_uuid |-> r.uuid] \in ur

\* this step is a call of op (a call that changes nothing and returns what the
\* call before it returned is a stuttering step)
Called(op) == last'.op = op /\ (last' # last \/ users' # users \/ user_roles' # user_roles)

\* the address a registration request names
ReqAddress(call) == ParseAddress(call.id).Address

\* this step is a registration with a well-formed email address
Registers == Called("CreateStandardUser") /\ ParseAddress(last'.id).err = Nil

Setters == {"SetPassword", "SetUsername", "SetName", "SetUserInfo", "SetEmail", "SetIsVerified"}

\* a password a registration stores: valid, and not longer than bcrypt hashes
Registrable(p) == CheckPassword(p) = Nil /\ Len(p) <= BcryptMaxLen

\* the rows the username strategy and the email strategy find for a token
ByUsername(us, id) == IF CheckUsername(id) = Nil THEN WithUsername(us, id) ELSE {}
ByEmail(us, id) ==
    IF ParseAddress(id).err = Nil THEN WithEmail(us, ParseAddress(id).Address) ELSE {}

\* the rows the strategies find, those of the first that finds any
Resolved(us, id) ==
    IF ByUsername(us, id) # {} THEN ByUsername(us, id)
    ELSE IF ByEmail(us, id) # {} THEN ByEmail(us, id)
    ELSE WithUuid(us, id)

\* the errors of the password validator
PasswordErrors == {ErrPasswordLength, ErrInvalidPassword}

\* the passwords the policy accepts: the empty one, and those of at least 8
\* characters, each a letter, a digit or one of @$!%*#?&.~^-
PolicyChars ==
    {"a", "b", "c", "d", "e", "f", "g", "h", "i", "j", "k", "l", "m", "n", "o", "p", "q",
     "r", "s", "t", "u", "v", "w", "x", "y", "z", "A", "B", "C", "D", "E", "F", "G", "H",
     "I", "J", "K", "L", "M", "N", "O", "P", "Q", "R", "S", "T", "U", "V", "W", "X", "Y",
     "Z", "0", "1", "2", "3", "4", "5", "6", "7", "8", "9",
     "@", "$", "!", "%", "*", "#", "?", "&", ".", "~", "^", "-"}
AcceptedAsClaimed(p) ==
    \/ p = <<>>
    \/ Len(p) >= 8 /\ \A i \in 1..Len(p) : p[i] \in PolicyChars

\* the roles account uuid is associated with, and the permissions of role r
RolesHeld(rl, ur, uuid) ==
    {r \in rl : [user_uuid |-> uuid, role_uuid |-> r.uuid] \in ur}
PermissionsHeld(rp, pm, r) ==
    {q \in pm : [role_uuid |-> r.uuid, permission_uuid |-> q.uuid] \in rp}

\* the elements of a sequence
Elements(seq) == {seq[i] : i \in 1..Len(seq)}

\* the sequence of texts ascends, no text twice
Ascending(texts) ==
    \A i, j \in 1..Len(texts) : i < j => TextLess(texts[i], texts[j])

\* the Name fields of a sequence of records
Names(seq) == [i \in 1..Len(seq) |-> seq[i].Name]

\* what the validators of the call that this step makes return for its input
Validation ==
    [SetPassword |-> CheckPassword(last'.password),
     SetUsername |-> CheckUsername(last'.username),
     SetName |-> IF CheckName(last'.firstName) # Nil THEN CheckName(last'.firstName)
                 ELSE CheckName(last'.lastName),
     SetUserInfo |-> IF CheckUsername(last'.username) # Nil
                     THEN CheckUsername(last'.username)
                     ELSE IF CheckName(last'.firstName) # Nil
                     THEN CheckName(last'.firstName)
                     ELSE CheckName(last'.lastName),
     SetEmail |-> CheckEmailIsWellFormed(last'.other).err,
     FindUserByUsername |-> CheckUsername(last'.id)]

\* the input of the setter that this step calls passes the setter's validators
ValidInput(op) == op = "SetIsVerified" \/ Validation[op] = Nil

\* the number of times x occurs in seq
Count(seq, x) == Cardinality({i \in 1..Len(seq) : seq[i] = x})

\* every account's own code verifies, and a code verifies against an account
\* exactly when it was derived from the account's timestamp
OtpsVerifyByTimestamp(us, os) ==
    /\ \A r \in us, s \in Salts :
          /\ ~CreateOtp(RowUser(r), s).panic
          /\ CheckOtpValid(RowUser(r), CreateOtp(RowUser(r), s).hash) = Nil
    /\ \A r \in us, o \in os :
          CheckOtpValid(RowUser(r), o.code)
              = IF o.updated = r.updated_on THEN Nil ELSE ErrOtpExpired

(***************************************************************************)
(* C1. Registration with a valid password and an email that matches no     *)
(* existing account ends in Created: afterwards exactly one account has    *)
(* that email, its username is the email, its email-verified flag is       *)
(* false, and it holds the "Standard" role.                                *)
(* The code never grants the role: Role scans into values, not pointers.   *)
(***************************************************************************)
C1_RegistrationCreates ==
    [][(/\ Registers
        /\ CheckPassword(last'.password) = Nil
        /\ WithEmail(users, ReqAddress(last')) = {})
       => /\ last'.err = Nil
          /\ Cardinality(WithEmail(users', ReqAddress(last'))) = 1
          /\ \A r \in WithEmail(users', ReqAddress(last')) :
                /\ r.username = ReqAddress(last')
                /\ ~r.email_verified
                /\ HoldsRole(roles', user_roles', r.uuid, STANDARD_ROLE)]_vars

C3_VerifiedRejected ==
    [][(/\ Registers
        /\ \E r \in WithEmail(users, ReqAddress(last')) : r.email_verified)
       => /\ last'.err = IF CheckPassword(last'.password) = Nil
                         THEN ErrAlreadyRegistered
                         ELSE CheckPassword(last'.password)
          /\ last'.user = NilUser
          /\ UNCHANGED <<users, roles, user_roles>>]_vars

\* C3 as claimed: the failure is AlreadyRegistered, whatever the password
C3_Original ==
    [][(/\ Registers
        /\ \E r \in WithEmail(users, ReqAddress(last')) : r.email_verified)
       => /\ last'.err = ErrAlreadyRegistered
          /\ UNCHANGED <<users, roles, user_roles>>]_vars

C3_Witness ==
    /\ last.op = "CreateStandardUser"
    /\ last.err = ErrAlreadyRegistered
    /\ last.outcome = "Rejected"
    /\ \E r \in WithEmail(users, ReqAddress(last)) : r.email_verified

(***************************************************************************)
(* C4. While an account for an email exists and is unverified, a           *)
(* registration for that email with a syntactically valid password is      *)
(* never rejected: it succeeds (Reissued) and makes the supplied password  *)
(* the account's active password.                                          *)
(* A valid password longer than bcrypt's 72 bytes makes the call panic     *)
(* (C10).                                                                  *)
(***************************************************************************)
C4_AntiLockout ==
    [][(/\ Registers
        /\ CheckPassword(last'.password) = Nil
        /\ \E r \in WithEmail(users, ReqAddress(last')) : ~r.email_verified)
       => /\ last'.err = Nil
          /\ last'.outcome = "Reissued"
          /\ \A r \in WithEmail(users', ReqAddress(last')) :
                CheckPasswordsMatch(r.password, last'.password) = Nil]_vars

(***************************************************************************)
(* C5. When the grant of the "Standard" role fails during registration,    *)
(* the registration still returns the account, and the failure reaches     *)
(* the caller with it.                                                     *)
(* The code drops what AddUserRole returns.                                *)
(***************************************************************************)
C5_RoleFailureSurfaced ==
    (last.op = "CreateStandardUser" /\ last.roleErr # Nil)
    => (last.user # NilUser /\ last.err = last.roleErr)

(***************************************************************************)
(* C6. FindUserById returns the account of the first strategy that         *)
(* succeeds, where the username strategy applies to a token that passes    *)
(* CheckUsername, the email strategy to a token that parses as an address, *)
(* and the uuid strategy to every token; it fails with NotFound exactly    *)
(* when none of them finds an account.                                     *)
(***************************************************************************)
C6_ResolveOrder ==
    last.op = "FindUserById"
    => /\ \A r \in Resolved(users, last.id) : last.err = Nil /\ last.user = RowUser(r)
       /\ Resolved(users, last.id) = {} => last.err = ErrNoRows /\ last.user = NilUser

\* C6 as claimed: the username strategy applies to every token
ResolvedAsClaimed(us, id) ==
    IF WithUsername(us, id) # {} THEN WithUsername(us, id)
    ELSE IF ByEmail(us, id) # {} THEN ByEmail(us, id)
    ELSE WithUuid(us, id)

C6_Original ==
    last.op = "FindUserById"
    => /\ \A r \in ResolvedAsClaimed(users, last.id) :
             last.err = Nil /\ last.user = RowUser(r)
       /\ ResolvedAsClaimed(users, last.id) = {} => last.err = ErrNoRows

\* resolved by email: the token is an address and nobody's username
C6_Witness ==
    /\ last.op = "FindUserById"
    /\ last.err = Nil
    /\ WithUsername(users, last.id) = {}
    /\ \E r \in ByEmail(users, last.id) : last.user = RowUser(r)

(***************************************************************************)
(* C7. Within one FindUserById call the username query, the email query    *)
(* and the uuid query are each sent to the store at most once.             *)
(* A token that is an address matching no account is looked up by email    *)
(* twice: by FindUserByUsername's fallback and by FindUserById itself.     *)
(***************************************************************************)
C7_NoStrategyRetried ==
    last.op = "FindUserById"
    => \A q \in {"findUserByUsername", "findUserByEmail", "findUserById"} :
          Count(last.stmts, q) <= 1

(***************************************************************************)
(* C8. A successful SetPassword, SetUsername, SetName, SetUserInfo,        *)
(* SetEmail or SetIsVerified of an account makes every one-time code       *)
(* derived from the account before it fail CheckOtpValid against the       *)
(* account as re-read, also within the second of the previous update.      *)
(* The timestamp counts seconds: an update within the second of the        *)
(* previous one leaves it, and the codes derived from it, as they were.    *)
(***************************************************************************)
C8_MutationInvalidatesOtps ==
    [][(/\ \E op \in Setters : Called(op)
        /\ last'.err = Nil
        /\ WithUuid(users, last'.id) # {})
       => \A r \in WithUuid(users', last'.id), o \in otps :
             o.uuid = r.uuid => CheckOtpValid(RowUser(r), o.code) # Nil]_vars

(***************************************************************************)
(* C9. For every account, CheckOtpValid(account, CreateOtp(account))       *)
(* succeeds, a code derived from the account's timestamp verifies as long  *)
(* as the timestamp is unchanged, a code derived from another timestamp    *)
(* fails as expired, and verifying changes neither accounts nor codes.     *)
(***************************************************************************)
C9_OtpRoundTrip ==
    [][/\ OtpsVerifyByTimestamp(users', otps')
       /\ Called("CheckOtpValid") =>
             /\ UNCHANGED <<users, otps>>
             /\ \A r \in WithUuid(users, last'.id) :
                   last'.err = CheckOtpValid(RowUser(r), last'.hash)]_vars

\* a code verified against the account it was derived from
C9_Witness ==
    /\ last.op = "CheckOtpValid"
    /\ last.err = Nil
    /\ \E o \in otps : o.code = last.hash /\ o.updated = last.user.Updated

(***************************************************************************)
(* C10. For every valid password p, CheckPasswordsMatch(HashPassword(p),   *)
(* p) succeeds, and for every q other than p it fails with "passwords do   *)
(* not match", as it does for a string that is no hash.                    *)
(* bcrypt reads 72 bytes: HashPassword panics on a longer password, and a  *)
(* hash of a 72-byte password verifies every extension of it.              *)
(***************************************************************************)
C10_HashRoundTrip ==
    last.op = "CheckPasswordsMatch"
    => IF last.outcome = "malformed" THEN last.err = ErrPasswordsDoNotMatch
       ELSE CheckPassword(last.password) = Nil
            => last.err = IF last.other = last.password THEN Nil
                          ELSE ErrPasswordsDoNotMatch

(***************************************************************************)
(* C11. For every non-empty password p shorter than 8 characters,          *)
(* CheckPassword(p) fails with the validation error "password must be at   *)
(* least 8 characters".                                                    *)
(***************************************************************************)
C11_ShortRejected ==
    (last.op = "CheckPassword" /\ 0 < Len(last.password) /\ Len(last.password) < 8)
    => last.err = ErrPasswordLength

\* C11 as claimed: every password shorter than 8 characters, the empty one too
C11_Original ==
    (last.op = "CheckPassword" /\ Len(last.password) < 8)
    => last.err \in PasswordErrors

\* a password of seven allowed characters, rejected for its length
C11_Witness ==
    /\ last.op = "CheckPassword"
    /\ Len(last.password) = 7
    /\ PASSWORD_REGEX(last.password)
    /\ last.err = ErrPasswordLength

(***************************************************************************)
(* C12. CheckPassword(p) succeeds exactly when p is empty, or p has at     *)
(* least 8 characters, each a letter, a digit or one of @$!%*#?&.~^- ; a   *)
(* registration or a SetPassword with the empty password does not fail     *)
(* with a password validation error.                                       *)
(***************************************************************************)
C12_PasswordPolicy ==
    /\ last.op = "CheckPassword" =>
           (last.err = Nil <=> AcceptedAsClaimed(last.password))
    /\ (last.op \in {"CreateStandardUser", "SetPassword"} /\ last.password = <<>>)
           => last.err \notin PasswordErrors

\* a registration with the empty password that created the account
C12_Witness ==
    /\ last.op = "CreateStandardUser"
    /\ last.password = <<>>
    /\ last.err = Nil
    /\ \E r \in users : CheckPasswordsMatch(r.password, <<>>) = Nil

(***************************************************************************)
(* C13. PublicUserRolePermissions returns, for every account, one entry    *)
(* per role the account holds that has a permission, in the order of the   *)
(* role names, each entry listing exactly the role's permission names in   *)
(* the order of the names.                                                 *)
(* The statement names columns of roles and does not list roles in its     *)
(* FROM clause: every call fails.                                          *)
(***************************************************************************)
C13_PublicView ==
    last.op = "PublicUserRolePermissions"
    => /\ last.err = Nil
       /\ Ascending(Names(last.ret))
       /\ Elements(Names(last.ret))
             = {r.name : r \in {r \in RolesHeld(roles, user_roles, last.id) :
                                    PermissionsHeld(role_permissions, permissions, r) # {}}}
       /\ \A e \in Elements(last.ret) :
             /\ Ascending(e.Permissions)
             /\ \A r \in RolesHeld(roles, user_roles, last.id) :
                   r.name = e.Name =>
                       Elements(e.Permissions)
                           = {q.name : q \in PermissionsHeld(role_permissions,
                                                              permissions, r)}

(***************************************************************************)
(* C16. AddUserRole with the name of a role the account does not hold      *)
(* inserts the association and succeeds; with a name no role has it fails  *)
(* with "role not available" and inserts nothing; when the account holds   *)
(* the role already it fails with another error than that, and inserts     *)
(* nothing.                                                                *)
(* Role scans into values, not pointers: no role is ever found.            *)
(***************************************************************************)
C16_GrantRole ==
    [][Called("AddUserRole") =>
          LET known == {r \in roles : r.name = last'.other}
              held == RolesHeld(known, user_roles, last'.id)
          IN  /\ known = {} => /\ last'.err = ErrRoleNotAvailable
                               /\ user_roles' = user_roles
              /\ (known # {} /\ held = {}) =>
                     /\ last'.err = Nil
                     /\ user_roles' = user_roles \cup
                            {[user_uuid |-> last'.id, role_uuid |-> r.uuid] : r \in known}
              /\ held # {} => /\ last'.err \notin {Nil, ErrRoleNotAvailable}
                              /\ user_roles' = user_roles]_vars

(***************************************************************************)
(* C19. UserRoles returns exactly the roles the account is associated      *)
(* with, in the order of their names, and UserPermissions exactly the      *)
(* permissions of those roles, in the order of their names and each once,  *)
(* also when several of the roles have it; for an account with no role     *)
(* both are empty.                                                         *)
(***************************************************************************)
C19_RolesAndPermissions ==
    /\ last.op = "UserRoles" =>
           /\ last.err = Nil
           /\ Ascending(Names(last.ret))
           /\ Elements(last.ret)
                 = {[Uuid |-> r.uuid, Name |-> r.name] :
                       r \in RolesHeld(roles, user_roles, last.id)}
    /\ last.op = "UserPermissions" =>
           /\ last.err = Nil
           /\ Ascending(Names(last.ret))
           /\ Elements(last.ret)
                 = {[Uuid |-> q.uuid, Name |-> q.name] :
                       q \in UNION {PermissionsHeld(role_permissions, permissions, r) :
                                       r \in RolesHeld(roles, user_roles, last.id)}}
    /\ (last.op \in {"UserRoles", "UserPermissions"}
          /\ RolesHeld(roles, user_roles, last.id) = {}) => last.ret = <<>>

\* the permissions of an account with two roles that share one of them
C19_Witness ==
    /\ last.op = "UserPermissions"
    /\ Len(last.ret) = 3
    /\ Cardinality(RolesHeld(roles, user_roles, last.id)) = 2
    /\ \E q \in permissions : \A r \in RolesHeld(roles, user_roles, last.id) :
          q \in PermissionsHeld(role_permissions, permissions, r)

(***************************************************************************)
(* C14. FindUserByEmail, FindUserByUsername and FindUserByUuid each look   *)
(* an account up once, by their own key: each returns an account only if   *)
(* the account has that key, and fails with NotFound when no account has;  *)
(* FindUserByUsername does so also for a name that is an account's email.  *)
(* FindUserByUsername looks a name no account has up by email as well.     *)
(***************************************************************************)
C14_OneLookupByKey ==
    /\ last.op = "FindUserByUsername" =>
           /\ Len(last.stmts) <= 1
           /\ last.err = Nil => \E r \in WithUsername(users, last.id) : last.user = RowUser(r)
           /\ (CheckUsername(last.id) = Nil /\ WithUsername(users, last.id) = {})
                  => last.err = ErrNoRows
    /\ last.op = "FindUserByEmail" =>
           /\ Len(last.stmts) = 1
           /\ last.err = Nil => \E r \in WithEmail(users, last.id) : last.user = RowUser(r)
           /\ WithEmail(users, last.id) = {} => last.err = ErrNoRows
    /\ last.op = "FindUserByUuid" =>
           /\ Len(last.stmts) = 1
           /\ last.err = Nil => \E r \in WithUuid(users, last.id) : last.user = RowUser(r)
           /\ WithUuid(users, last.id) = {} => last.err = ErrNoRows

(***************************************************************************)
(* C17. Every failure of every operation is returned to the caller as an   *)
(* error: no call panics.                                                  *)
(* NewUserDB and HashPassword pass their errors to sys.Must.               *)
(***************************************************************************)
C17_NoPanic == last.err # Panic

(***************************************************************************)
(* C18. SetPassword, SetUsername, SetName, SetUserInfo and SetEmail send   *)
(* their write only for an input their validator accepts, and              *)
(* FindUserByUsername its query only for a username CheckUsername accepts; *)
(* for an input the validator rejects the call returns the validator's     *)
(* error, sends no statement to the store and leaves every account as it   *)
(* was.                                                                    *)
(***************************************************************************)
C18_ValidationFirst ==
    [][\A op \in DOMAIN Validation :
          Called(op) =>
              /\ Validation[op] # Nil => /\ last'.err = Validation[op]
                                         /\ last'.stmts = <<>>
                                         /\ users' = users
              /\ last'.stmts # <<>> => Validation[op] = Nil]_vars

\* a username too short, refused for an account that exists
C18_Witness ==
    /\ last.op = "SetUsername"
    /\ last.err = ErrUsernameLength
    /\ last.stmts = <<>>
    /\ WithUuid(users, last.id) # {}

C21_VerifiedPasswordKept ==
    [][\A c \in Procs :
          (calls[c].pc = "setpw" /\ calls'[c].pc # "setpw")
          => \A r \in users :
                r.email_verified
                => \E w \in users' : w.uuid = r.uuid /\ w.password = r.password]_vars

C23_ReissuedReturnsStored ==
    (last.op = "CreateStandardUser" /\ last.outcome = "Reissued")
    => /\ last.user = FindUserByEmail(users, ReqAddress(last)).user
       /\ CheckPasswordsMatch(last.user.HashedPassword, last.password) = Nil

(***************************************************************************)
(* C24. A setter called with an input its validators accept and an id no   *)
(* account has changes no account and returns no error.                    *)
(* SetPassword with an accepted password of more than 72 bytes panics      *)
(* (C10).                                                                  *)
(***************************************************************************)
C24_NoAccountNoError ==
    [][\A op \in Setters :
          (Called(op) /\ ValidInput(op) /\ WithUuid(users, last'.id) = {})
          => last'.err = Nil /\ users' = users]_vars

(***************************************************************************)
(* C25. No step removes an account or changes an account's uuid, and no    *)
(* step makes an email-verified flag that is true false; a SetEmail that   *)
(* succeeds changes the email address and the last-updated timestamp of    *)
(* the account and nothing else, so a verified account stays verified      *)
(* with its new address.                                                   *)
(***************************************************************************)
C25_Monotone ==
    [][/\ \A r \in users :
             \E w \in users' : w.uuid = r.uuid /\ (r.email_verified => w.email_verified)
       /\ (Called("SetEmail") /\ last'.err = Nil)
             => \A r \in WithUuid(users, last'.id) :
                   \E w \in users' :
                       w = [r EXCEPT !.email = CheckEmailIsWellFormed(last'.other).Address,
                                     !.updated_on = w.updated_on]]_vars

\* a verified account whose address SetEmail has changed
C25_Witness ==
    /\ last.op = "SetEmail"
    /\ last.err = Nil
    /\ \E r \in WithUuid(users, last.id) :
          /\ r.email_verified
          /\ r.email = last.other
          /\ r.username \in Addresses
          /\ r.username # r.email

====
